---- MODULE Spec2Model ----
(***************************************************************************)
(* Blog Management System (src/src/main.py): the in-memory stores, the     *)
(* bearer-token authentication and the request handlers.  An endpoint      *)
(* function is an `async def` without an await, so it runs to completion   *)
(* on the event loop: register, login and the three GET endpoints are one  *)
(* step each.  A request to an endpoint that depends on get_current_user is*)
(* two steps: FastAPI resolves the dependencies (security, then            *)
(* get_current_user in the thread pool) and only afterwards calls the      *)
(* endpoint function; pending holds the requests in between.  Where clients*)
(* wait for the response before sending the next request only the clock can*)
(* move between the two steps; where requests are in flight together the   *)
(* endpoint functions of other requests can run there too.                 *)
(*                                                                         *)
(* Time is counted in minutes; datetime.utcnow() is read at multiples of   *)
(* ClockStep, or of a token's lifetime, and does not run backwards, and    *)
(* several requests may read the same value.  A response body is a         *)
(* sequence of records: one record for a single object, the list for a     *)
(* list endpoint, empty for an HTTPException (whose text is in detail).    *)
(* Request bodies are valid for the pydantic models, so no request is      *)
(* answered 422.  A value of type Optional[str] is None or Some(s), so that *)
(* None differs from every string, the string "None" included; a password  *)
(* is the sequence of its bytes, of which bcrypt reads the first 72.        *)
(***************************************************************************)
EXTENDS Integers, Sequences, FiniteSets, Bags, TLC

VARIABLES
    users_db,         \* main.py:39  username -> user record
    posts_db,         \* main.py:40  post id -> post_data
    posts_keys,       \* main.py:40  the keys of posts_db in dict (insertion) order
    likes_db,         \* main.py:41  post id -> set of usernames
    comments_db,      \* main.py:42  post id -> sequence of comment_data
    post_counter,     \* main.py:43
    comment_counter,  \* main.py:44
    now,              \* datetime.utcnow(), in minutes
    issued,           \* the tokens login has returned, each with its issue time
    response,         \* the last response sent, or NoResponseYet while the last
                      \* request waits for its endpoint function
    created_ids,      \* history: ids returned by successful create_post, in order
    deleted_ids,      \* history: ids of the posts successfully deleted
    gone_comments,    \* history: ids of the comments removed with their post
    added,            \* history: post id -> number of successful add_comment
    registered,       \* history: username -> the User of its successful register
    pending           \* the bag of requests whose dependencies are resolved and
                      \* whose endpoint function has not been called yet

vars == <<users_db, posts_db, posts_keys, likes_db, comments_db, post_counter,
          comment_counter, now, issued, response, created_ids, deleted_ids,
          gone_comments, added, registered, pending>>

stores == <<users_db, posts_db, posts_keys, likes_db, comments_db, post_counter,
            comment_counter>>

history == <<created_ids, deleted_ids, gone_comments, added, registered>>

----------------------------------------------------------------------------
(* Program constants *)

ACCESS_TOKEN_EXPIRE_MINUTES == 30

DefaultExpireMinutes == 15

HTTP_200_OK == 200

HTTP_400_BAD_REQUEST == 400

HTTP_401_UNAUTHORIZED == 401

HTTP_403_FORBIDDEN == 403

HTTP_404_NOT_FOUND == 404

(* Bounds of the model *)

ClockStep == 10

MaxPosts == 1

MaxComments == 1

MaxPostsOwner == 1

MaxCommentsOwner == 1

MaxTicksOwner == 1

MaxPostsList == 3

MaxTicksList == 2

MaxPostsExpiry == 1

MaxTokensExpiry == 2

MaxTicksExpiry == 4

MaxPostsRegister == 1

MaxPostsConcurrent == 2

MaxCommentsConcurrent == 2

MaxPostsCascade == 1

MaxCommentsCascade == 1

MaxInFlight == 2

MaxPostsComments == 2

MaxCommentsComments == 3

MaxPostsUpdate == 2

MaxCommentsUpdate == 1

MaxTicksUpdate == 1

MaxPostsOrder == 1

MaxCommentsOrder == 1

MaxExpiriesOrder == 1

MaxPostsLikes == 2

MaxCommentsLikes == 1

MaxPostsGone == 2

MaxCommentsGone == 2

\* Python's None, which differs from every string: a value of type Optional[str]
\* is None or Some(s) for a string s, and v[1] is the string of a value v # None
None == <<>>

Some(s) == <<s>>

Usernames == {"alice", "bob"}

\* two short passwords, as sequences of bytes
pw1 == <<"p", "w", "1">>

pw2 == <<"p", "w", "2">>

----------------------------------------------------------------------------
(* Python dict and list helpers *)

\* d[k] = v
Put(d, k, v) == [x \in (DOMAIN d) \cup {k} |-> IF x = k THEN v ELSE d[x]]

\* del d[k]
Del(d, k) == [x \in (DOMAIN d) \ {k} |-> d[x]]

\* d.get(k, default)
Get(d, k, default) == IF k \in DOMAIN d THEN d[k] ELSE default

\* the list without the element k (the key order of a dict after del d[k])
RECURSIVE Without(_, _)
Without(s, k) ==
    IF s = <<>> THEN <<>>
    ELSE IF Head(s) = k THEN Without(Tail(s), k)
    ELSE <<Head(s)>> \o Without(Tail(s), k)

\* the key order of a dict after d[k] = v: a new key goes last, an old one stays
KeysPut(s, k) == IF \E i \in 1..Len(s) : s[i] = k THEN s ELSE Append(s, k)

----------------------------------------------------------------------------
(* Utility functions *)

\* pwd_context = CryptContext(schemes=["bcrypt"]): bcrypt reads the first 72
\* bytes of a password and ignores the rest
BcryptMaxBytes == 72

\* the bytes of a password that bcrypt reads; a password is the sequence of
\* its bytes
Truncated(password) ==
    SubSeq(password, 1,
           IF Len(password) < BcryptMaxBytes THEN Len(password) ELSE BcryptMaxBytes)

\* pwd_context.hash: a salted one-way hash; the digest is determined by the
\* salt and the bytes of the password that bcrypt reads, and differs when
\* these differ
hash_password(password, salt) ==
    [salt |-> salt, digest |-> <<salt, Truncated(password)>>]

\* pwd_context.verify: the hash of plain_password under the salt of
\* hashed_password, compared with hashed_password
verify_password(plain_password, hashed_password) ==
    hashed_password.digest = <<hashed_password.salt, Truncated(plain_password)>>

\* expires_delta ignored: always the default of 15 minutes
create_access_token_default(data, expires_delta) ==
    [sub |-> data.sub, exp |-> now + DefaultExpireMinutes, sig |-> "SECRET_KEY"]

\* expires_delta = 0 stands for None (and for the falsy timedelta(0))
create_access_token(data, expires_delta) ==
    LET expire == IF expires_delta # 0 THEN now + expires_delta
                  ELSE now + DefaultExpireMinutes
    IN  [sub |-> data.sub, exp |-> expire, sig |-> "SECRET_KEY"]

HTTPException(status_code, detail) ==
    [status |-> status_code, detail |-> detail, username |-> None]

Authenticated(username) ==
    [status |-> HTTP_200_OK, detail |-> "", username |-> Some(username)]

\* jwt.decode verifies the signature and that exp lies in the future;
\* token.sub is payload.get("sub"): None when the token carries no sub
decode_access_token(token) ==
    IF token.sig # "SECRET_KEY" \/ token.exp <= now
    THEN HTTPException(HTTP_401_UNAUTHORIZED, "Could not validate credentials")
    ELSE IF token.sub = None
    THEN HTTPException(HTTP_401_UNAUTHORIZED, "Could not validate credentials")
    ELSE Authenticated(token.sub[1])

get_current_user(token) ==
    LET decoded == decode_access_token(token)
    IN  IF decoded.status # HTTP_200_OK THEN decoded
        ELSE IF decoded.username[1] \notin DOMAIN users_db
        THEN HTTPException(HTTP_401_UNAUTHORIZED, "User not found")
        ELSE decoded

\* the Authorization header of a request: its scheme, the sequence of its
\* characters (<<>> when the header is missing), and its credentials (<<>> when
\* there are none, else <<token>>)
Authorization(scheme, credentials) == [scheme |-> scheme, credentials |-> credentials]

\* scheme.lower() == "bearer": the scheme is the word bearer with every letter
\* in either case (b, e, a and r are the lower case of B, E, A and R and of no
\* other character)
IsBearerScheme(scheme) ==
    LET bearer == <<"b", "e", "a", "r", "e", "r">>
        BEARER == <<"B", "E", "A", "R", "E", "R">>
    IN  /\ Len(scheme) = Len(bearer)
        /\ \A i \in 1..Len(scheme) : scheme[i] \in {bearer[i], BEARER[i]}

\* how HTTPBearer refuses a request: main.py pins no release of FastAPI, and
\* the releases differ in the status they answer (403 in some, 401 in others)
\* and in the detail they give for a scheme that is not bearer
HTTPBearerRefusals(detail) ==
    {HTTPException(HTTP_403_FORBIDDEN, detail),
     HTTPException(HTTP_401_UNAUTHORIZED, "Not authenticated")}

\* security = HTTPBearer(), the dependency of get_current_user, a class of
\* FastAPI: the outcomes of the dependency for a request.  A request without
\* a header, or without credentials in it, and a request with a scheme that is
\* not bearer in lower case are refused before get_current_user is called;
\* any other request is passed on to get_current_user with its credentials.
security(authorization) ==
    IF authorization.scheme = <<>> \/ authorization.credentials = <<>>
    THEN HTTPBearerRefusals("Not authenticated")
    ELSE IF ~IsBearerScheme(authorization.scheme)
    THEN HTTPBearerRefusals("Invalid authentication credentials")
    ELSE {[status |-> HTTP_200_OK, detail |-> "", username |-> None]}

----------------------------------------------------------------------------
(* Responses *)

Response(op, user, post_id, status, detail, body) ==
    [op |-> op, user |-> user, post_id |-> post_id, status |-> status,
     detail |-> detail, body |-> body]

\* the response of a request that raised exc
Raised(op, user, post_id, exc) ==
    Response(op, user, post_id, exc.status, exc.detail, <<>>)

\* the counts left at the defaults of the response model
BlogPostResponseDefaults(post_data, likes_count, comments_count) ==
    [id |-> post_data.id, title |-> post_data.title, content |-> post_data.content,
     author |-> post_data.author, created_at |-> post_data.created_at,
     updated_at |-> post_data.updated_at, likes_count |-> 0, comments_count |-> 0]

\* BlogPostResponse(**post_data, likes_count=..., comments_count=...)
BlogPostResponse(post_data, likes_count, comments_count) ==
    [id |-> post_data.id, title |-> post_data.title, content |-> post_data.content,
     author |-> post_data.author, created_at |-> post_data.created_at,
     updated_at |-> post_data.updated_at, likes_count |-> likes_count,
     comments_count |-> comments_count]

\* raise HTTPException(...) in an endpoint function: no store was touched
Raise(raised) ==
    /\ response' = raised
    /\ UNCHANGED <<stores, now, issued, history>>

\* raise HTTPException(...) in an endpoint without dependencies or in a
\* dependency: the request ends here, no store was touched, nothing is in flight
Reject(raised) ==
    /\ Raise(raised)
    /\ UNCHANGED pending

Init ==
    /\ users_db = <<>>
    /\ posts_db = <<>>
    /\ posts_keys = <<>>
    /\ likes_db = <<>>
    /\ comments_db = <<>>
    /\ post_counter = 0
    /\ comment_counter = 0
    /\ now = 0
    /\ issued = {}
    /\ response = Response("start", None, 0, HTTP_200_OK, "", <<>>)
    /\ created_ids = <<>>
    /\ deleted_ids = {}
    /\ gone_comments = {}
    /\ added = <<>>
    /\ registered = <<>>
    /\ pending = EmptyBag

----------------------------------------------------------------------------
(* Authentication endpoints *)

\* user.username in users_db
UsernameTaken(username) == username \in DOMAIN users_db

\* in the response of register and login, user is the username of the request
register(user, salt) ==
    IF UsernameTaken(user.username)
    THEN Reject(Raised("register", Some(user.username), 0,
                    HTTPException(HTTP_400_BAD_REQUEST, "Username already registered")))
    ELSE LET hashed_password == hash_password(user.password, salt)
         IN  /\ users_db' = Put(users_db, user.username,
                               [username |-> user.username, email |-> user.email,
                                hashed_password |-> hashed_password])
             /\ response' = Response("register", Some(user.username), 0, HTTP_200_OK, "",
                               <<[username |-> user.username, email |-> user.email]>>)
             /\ registered' = IF user.username \in DOMAIN registered THEN registered
                              ELSE Put(registered, user.username, user)
             /\ UNCHANGED <<posts_db, posts_keys, likes_db, comments_db, post_counter,
                            comment_counter, now, issued, pending, created_ids, deleted_ids,
                            gone_comments, added>>

\* an unknown username answered differently from a wrong password
UnknownUserRevealed(user_login) == HTTPException(HTTP_404_NOT_FOUND, "User not found")

\* the exception raised when user_login.username not in users_db
UnknownUser(user_login) ==
    HTTPException(HTTP_401_UNAUTHORIZED, "Incorrect username or password")

login(user_login) ==
    IF user_login.username \notin DOMAIN users_db
    THEN Reject(Raised("login", Some(user_login.username), 0, UnknownUser(user_login)))
    ELSE LET user_data == users_db[user_login.username]
         IN  IF ~verify_password(user_login.password, user_data.hashed_password)
             THEN Reject(Raised("login", Some(user_login.username), 0,
                    HTTPException(HTTP_401_UNAUTHORIZED, "Incorrect username or password")))
             ELSE LET access_token == create_access_token([sub |-> Some(user_login.username)],
                                                          ACCESS_TOKEN_EXPIRE_MINUTES)
                  IN  /\ response' = Response("login", Some(user_login.username), 0, HTTP_200_OK,
                             "", <<[access_token |-> access_token, token_type |-> "bearer"]>>)
                      /\ issued' = issued \cup {[token |-> access_token, at |-> now,
                                                 user |-> user_login.username,
                                                 password |-> user_login.password]}
                      /\ UNCHANGED <<stores, now, history, pending>>

----------------------------------------------------------------------------
(* Blog post CRUD endpoints *)

\* a reused id: one more than the number of posts currently stored
ReusePostCounter == Cardinality(DOMAIN posts_db) + 1

\* post_counter += 1
IncrPostCounter == post_counter + 1

\* no ownership check at all
NotAuthorNever(post_data, current_user) == FALSE

\* post_data["author"] != current_user
NotAuthor(post_data, current_user) == post_data.author # current_user

\* the author taken from the request body when the client sent one
PostAuthorFromBody(post, current_user) ==
    IF post.author # None THEN post.author[1] ELSE current_user

\* "author": current_user
PostAuthor(post, current_user) == current_user

\* the endpoint function, called with the username its dependency returned
create_post(post, current_user) ==
    LET counter == IncrPostCounter
        post_data == [id |-> counter, title |-> post.title,
                      content |-> post.content, author |-> PostAuthor(post, current_user),
                      created_at |-> now, updated_at |-> now]
    IN  /\ post_counter' = counter
        /\ posts_db' = Put(posts_db, counter, post_data)
        /\ posts_keys' = KeysPut(posts_keys, counter)
        /\ likes_db' = Put(likes_db, counter, {})
        /\ comments_db' = Put(comments_db, counter, <<>>)
        /\ response' = Response("create_post", Some(current_user), counter, HTTP_200_OK,
                                "", <<BlogPostResponse(post_data, 0, 0)>>)
        /\ created_ids' = Append(created_ids, counter)
        /\ UNCHANGED <<users_db, comment_counter, now, issued, deleted_ids,
                       gone_comments, added, registered>>

\* the list as the loop built it, not sorted
NotSorted(result) == result

\* one step of sorted(..., key=created_at, reverse=True): x goes behind every
\* element whose key is not smaller, so equal keys keep their input order
RECURSIVE InsertDesc(_, _)
InsertDesc(sorted, x) ==
    IF sorted = <<>> THEN <<x>>
    ELSE IF Head(sorted).created_at >= x.created_at
    THEN <<Head(sorted)>> \o InsertDesc(Tail(sorted), x)
    ELSE <<x>> \o sorted

\* sorted(result, key=lambda x: x.created_at, reverse=True), a stable sort
RECURSIVE SortedDesc(_)
SortedDesc(result) ==
    IF result = <<>> THEN <<>>
    ELSE InsertDesc(SortedDesc(SubSeq(result, 1, Len(result) - 1)), result[Len(result)])

\* the loop of get_all_posts over posts_db.items(), in dict order
AllPostResponses ==
    [i \in 1..Len(posts_keys) |->
        LET post_id == posts_keys[i]
        IN  BlogPostResponse(posts_db[post_id],
                             Cardinality(Get(likes_db, post_id, {})),
                             Len(Get(comments_db, post_id, <<>>)))]

get_all_posts ==
    /\ response' = Response("get_all_posts", None, 0, HTTP_200_OK, "",
                            SortedDesc(AllPostResponses))
    /\ UNCHANGED <<stores, now, issued, pending, history>>

get_post(post_id) ==
    IF post_id \notin DOMAIN posts_db
    THEN Reject(Raised("get_post", None, post_id,
                               HTTPException(HTTP_404_NOT_FOUND, "Post not found")))
    ELSE LET post_data == posts_db[post_id]
             likes_count == Cardinality(Get(likes_db, post_id, {}))
             comments_count == Len(Get(comments_db, post_id, <<>>))
         IN  /\ response' = Response("get_post", None, post_id, HTTP_200_OK, "",
                                <<BlogPostResponse(post_data, likes_count, comments_count)>>)
             /\ UNCHANGED <<stores, now, issued, pending, history>>

\* updated_at refreshed only when the patch carries a field
UpdatedUnlessEmpty(post_data, post_update) ==
    [post_data EXCEPT
        !.title = IF post_update.title # None THEN post_update.title[1] ELSE @,
        !.content = IF post_update.content # None THEN post_update.content[1] ELSE @,
        !.updated_at = IF post_update.title = None /\ post_update.content = None
                       THEN @ ELSE now]

\* "Update only provided fields", then post_data["updated_at"] = utcnow()
Updated(post_data, post_update) ==
    [post_data EXCEPT
        !.title = IF post_update.title # None THEN post_update.title[1] ELSE @,
        !.content = IF post_update.content # None THEN post_update.content[1] ELSE @,
        !.updated_at = now]

update_post(post_id, post_update, current_user) ==
    IF post_id \notin DOMAIN posts_db
    THEN Raise(Raised("update_post", Some(current_user), post_id,
                      HTTPException(HTTP_404_NOT_FOUND, "Post not found")))
    ELSE IF NotAuthor(posts_db[post_id], current_user)
    THEN Raise(Raised("update_post", Some(current_user), post_id,
                   HTTPException(HTTP_403_FORBIDDEN, "Not authorized to update this post")))
    ELSE LET post_data == Updated(posts_db[post_id], post_update)
             likes_count == Cardinality(Get(likes_db, post_id, {}))
             comments_count == Len(Get(comments_db, post_id, <<>>))
         IN  /\ posts_db' = [posts_db EXCEPT ![post_id] = post_data]
             /\ response' = Response("update_post", Some(current_user), post_id, HTTP_200_OK,
                    "", <<BlogPostResponse(post_data, likes_count, comments_count)>>)
             /\ UNCHANGED <<users_db, posts_keys, likes_db, comments_db, post_counter,
                            comment_counter, now, issued, history>>

\* the cascade without del likes_db[post_id]: the like-set stays
remove_post_keeps_likes(post_id, current_user) ==
    /\ posts_db' = Del(posts_db, post_id)
    /\ posts_keys' = Without(posts_keys, post_id)
    /\ comments_db' = IF post_id \in DOMAIN comments_db
                      THEN Del(comments_db, post_id) ELSE comments_db
    /\ response' = Response("delete_post", Some(current_user), post_id, HTTP_200_OK, "",
                            <<[message |-> "Post deleted successfully"]>>)
    /\ deleted_ids' = deleted_ids \cup {post_id}
    /\ gone_comments' = gone_comments \cup
           {Get(comments_db, post_id, <<>>)[i].id :
                i \in 1..Len(Get(comments_db, post_id, <<>>))}
    /\ UNCHANGED <<users_db, likes_db, post_counter, comment_counter, now, issued,
                   created_ids, added, registered>>

\* "Clean up related data": the post, its like-set and its comments go
remove_post(post_id, current_user) ==
    /\ posts_db' = Del(posts_db, post_id)
    /\ posts_keys' = Without(posts_keys, post_id)
    /\ likes_db' = IF post_id \in DOMAIN likes_db THEN Del(likes_db, post_id) ELSE likes_db
    /\ comments_db' = IF post_id \in DOMAIN comments_db
                      THEN Del(comments_db, post_id) ELSE comments_db
    /\ response' = Response("delete_post", Some(current_user), post_id, HTTP_200_OK, "",
                            <<[message |-> "Post deleted successfully"]>>)
    /\ deleted_ids' = deleted_ids \cup {post_id}
    /\ gone_comments' = gone_comments \cup
           {Get(comments_db, post_id, <<>>)[i].id :
                i \in 1..Len(Get(comments_db, post_id, <<>>))}
    /\ UNCHANGED <<users_db, post_counter, comment_counter, now, issued, created_ids,
                   added, registered>>

delete_post(post_id, current_user) ==
    IF post_id \notin DOMAIN posts_db
    THEN Raise(Raised("delete_post", Some(current_user), post_id,
                      HTTPException(HTTP_404_NOT_FOUND, "Post not found")))
    ELSE IF NotAuthor(posts_db[post_id], current_user)
    THEN Raise(Raised("delete_post", Some(current_user), post_id,
                   HTTPException(HTTP_403_FORBIDDEN, "Not authorized to delete this post")))
    ELSE remove_post(post_id, current_user)

----------------------------------------------------------------------------
(* Like functionality *)

\* no check for an earlier like
AlreadyLikedNever(likes, post_id, current_user) == FALSE

\* current_user in likes_db[post_id]
AlreadyLiked(likes, post_id, current_user) == current_user \in likes[post_id]

\* no existence check in the endpoint function
PostMissingNever(post_id) == FALSE

\* post_id not in posts_db, as like_post and add_comment test it
PostMissing(post_id) == post_id \notin DOMAIN posts_db

like_post(post_id, current_user) ==
    IF PostMissing(post_id)
    THEN Raise(Raised("like_post", Some(current_user), post_id,
                      HTTPException(HTTP_404_NOT_FOUND, "Post not found")))
    ELSE LET likes == IF post_id \notin DOMAIN likes_db THEN Put(likes_db, post_id, {})
                      ELSE likes_db
         IN  IF AlreadyLiked(likes, post_id, current_user)
             THEN /\ likes_db' = likes
                  /\ response' = Raised("like_post", Some(current_user), post_id,
                         HTTPException(HTTP_400_BAD_REQUEST,
                                       "You have already liked this post"))
                  /\ UNCHANGED <<users_db, posts_db, posts_keys, comments_db,
                                 post_counter, comment_counter, now, issued, history>>
             ELSE LET liked == [likes EXCEPT ![post_id] = @ \cup {current_user}]
                      likes_count == Cardinality(liked[post_id])
                  IN  /\ likes_db' = liked
                      /\ response' = Response("like_post", Some(current_user), post_id,
                             HTTP_200_OK, "",
                             <<[message |-> "Post liked successfully",
                                likes_count |-> likes_count]>>)
                      /\ UNCHANGED <<users_db, posts_db, posts_keys, comments_db,
                                     post_counter, comment_counter, now, issued, history>>

\* the whole like-set of the post cleared
UnlikedAll(likes, post_id, current_user) == [likes EXCEPT ![post_id] = {}]

\* likes_db[post_id].remove(current_user)
Unliked(likes, post_id, current_user) == [likes EXCEPT ![post_id] = @ \ {current_user}]

unlike_post(post_id, current_user) ==
    IF post_id \notin DOMAIN posts_db
    THEN Raise(Raised("unlike_post", Some(current_user), post_id,
                      HTTPException(HTTP_404_NOT_FOUND, "Post not found")))
    ELSE IF post_id \notin DOMAIN likes_db \/ current_user \notin likes_db[post_id]
    THEN Raise(Raised("unlike_post", Some(current_user), post_id,
                   HTTPException(HTTP_400_BAD_REQUEST, "You haven't liked this post")))
    ELSE LET unliked == Unliked(likes_db, post_id, current_user)
             likes_count == Cardinality(unliked[post_id])
         IN  /\ likes_db' = unliked
             /\ response' = Response("unlike_post", Some(current_user), post_id, HTTP_200_OK,
                    "", <<[message |-> "Post unliked successfully",
                           likes_count |-> likes_count]>>)
             /\ UNCHANGED <<users_db, posts_db, posts_keys, comments_db, post_counter,
                            comment_counter, now, issued, history>>

----------------------------------------------------------------------------
(* Comment functionality *)

\* the ids of the comments currently stored
StoredCommentIds ==
    UNION {{comments_db[p][i].id : i \in 1..Len(comments_db[p])} : p \in DOMAIN comments_db}

\* a reused id: one more than the number of comments currently stored
ReuseCommentCounter == Cardinality(StoredCommentIds) + 1

\* comment_counter += 1
IncrCommentCounter == comment_counter + 1

\* the list of the post replaced by a list holding only the new comment
ReplaceComments(comments, post_id, comment_data) ==
    [comments EXCEPT ![post_id] = <<comment_data>>]

\* comments_db[post_id].append(comment_data)
AppendComment(comments, post_id, comment_data) ==
    [comments EXCEPT ![post_id] = Append(@, comment_data)]

\* comment_counter += 1 moved in front of the existence check
add_comment_counts_first(post_id, comment, current_user) ==
    IF PostMissing(post_id)
    THEN /\ comment_counter' = comment_counter + 1
         /\ response' = Raised("add_comment", Some(current_user), post_id,
                               HTTPException(HTTP_404_NOT_FOUND, "Post not found"))
         /\ UNCHANGED <<users_db, posts_db, posts_keys, likes_db, comments_db,
                        post_counter, now, issued, history>>
    ELSE LET counter == IncrCommentCounter
             comment_data == [id |-> counter, content |-> comment.content,
                              author |-> current_user, post_id |-> post_id,
                              created_at |-> now]
             comments == IF post_id \notin DOMAIN comments_db
                         THEN Put(comments_db, post_id, <<>>) ELSE comments_db
         IN  /\ comment_counter' = counter
             /\ comments_db' = AppendComment(comments, post_id, comment_data)
             /\ response' = Response("add_comment", Some(current_user), post_id, HTTP_200_OK,
                                     "", <<comment_data>>)
             /\ added' = Put(added, post_id, Get(added, post_id, 0) + 1)
             /\ UNCHANGED <<users_db, posts_db, posts_keys, likes_db, post_counter, now,
                            issued, created_ids, deleted_ids, gone_comments, registered>>

add_comment(post_id, comment, current_user) ==
    IF PostMissing(post_id)
    THEN Raise(Raised("add_comment", Some(current_user), post_id,
                      HTTPException(HTTP_404_NOT_FOUND, "Post not found")))
    ELSE LET counter == IncrCommentCounter
             comment_data == [id |-> counter, content |-> comment.content,
                              author |-> current_user, post_id |-> post_id,
                              created_at |-> now]
             comments == IF post_id \notin DOMAIN comments_db
                         THEN Put(comments_db, post_id, <<>>) ELSE comments_db
         IN  /\ comment_counter' = counter
             /\ comments_db' = AppendComment(comments, post_id, comment_data)
             /\ response' = Response("add_comment", Some(current_user), post_id, HTTP_200_OK,
                                     "", <<comment_data>>)
             /\ added' = Put(added, post_id, Get(added, post_id, 0) + 1)
             /\ UNCHANGED <<users_db, posts_db, posts_keys, likes_db, post_counter, now,
                            issued, created_ids, deleted_ids, gone_comments, registered>>

get_comments(post_id) ==
    IF post_id \notin DOMAIN posts_db
    THEN Reject(Raised("get_comments", None, post_id,
                               HTTPException(HTTP_404_NOT_FOUND, "Post not found")))
    ELSE /\ response' = Response("get_comments", None, post_id, HTTP_200_OK, "",
                                 Get(comments_db, post_id, <<>>))
         /\ UNCHANGED <<stores, now, issued, pending, history>>

----------------------------------------------------------------------------
(* The clock: datetime.utcnow() advances between requests, and between the *)
(* two steps of a request                                                   *)

Tick(max_ticks) ==
    /\ now + ClockStep <= ClockStep * max_ticks
    /\ now' = now + ClockStep
    /\ UNCHANGED <<stores, issued, pending, response, history>>

----------------------------------------------------------------------------
(* The requests clients send *)

\* a token that was not signed with SECRET_KEY
ForgedToken == [sub |-> Some("alice"), exp |-> 1000, sig |-> "mallory"]

\* the bearer tokens a client can present: those login returned, and forged ones
Bearers == {r.token : r \in issued} \cup {ForgedToken}

\* the header "Authorization: Bearer <token>"
Bearer(token) == Authorization(<<"B", "e", "a", "r", "e", "r">>, <<token>>)

\* the headers clients send: every request carries a bearer token
BearerAuthorizations == {Bearer(token) : token \in Bearers}

\* the request would be refused by security or answered 401 by
\* get_current_user
Unauthenticated(authorization) ==
    IF \E credentials \in security(authorization) : credentials.status # HTTP_200_OK
    THEN TRUE
    ELSE get_current_user(authorization.credentials[1]).status # HTTP_200_OK

User(username, email, password) ==
    [username |-> username, email |-> email, password |-> password]

UserLogin(username, password) == [username |-> username, password |-> password]

BlogPost(title, content, author) ==
    [title |-> title, content |-> content, author |-> author]

BlogPostUpdate(title, content) == [title |-> title, content |-> content]

Comment(content) == [content |-> content]

----------------------------------------------------------------------------
(* The two steps of a request to an endpoint that depends on               *)
(* get_current_user.  FastAPI first resolves the dependencies: security    *)
(* (HTTPBearer) and then get_current_user, a plain def that it runs in the *)
(* thread pool, giving the event loop back.  Only then does it call the    *)
(* endpoint function, an async def without an await, which runs on the     *)
(* event loop without interruption.  Between the two steps the clock moves *)
(* on and, where requests are in flight together, the endpoint functions   *)
(* of other requests run.                                                  *)

\* a request whose dependencies are resolved: the arguments of its endpoint
\* function (body holds the request body, if the endpoint has one)
Request(op, post_id, body, current_user) ==
    [op |-> op, post_id |-> post_id, body |-> body, current_user |-> current_user]

\* the requests of one kind that are in flight
InFlight(op) == {r \in BagToSet(pending) : r.op = op}

\* the client waits for the response before it sends the next request
OneAtATime == pending = EmptyBag

\* what response holds while the last request waits for its endpoint function
NoResponseYet == Response("waiting", None, 0, 0, "", <<>>)

\* the existence of the post checked before the credentials are looked at
ResolvePostFirst(op, post_id, body, authorization) ==
    IF op # "create_post" /\ post_id \notin DOMAIN posts_db
    THEN Reject(Raised(op, None, post_id,
                       HTTPException(HTTP_404_NOT_FOUND, "Post not found")))
    ELSE IF Unauthenticated(authorization)
    THEN \E credentials \in security(authorization) :
             Reject(Raised(op, None, post_id,
                           IF credentials.status # HTTP_200_OK
                           THEN credentials
                           ELSE get_current_user(authorization.credentials[1])))
    ELSE /\ pending' = pending (+)
               SetToBag({Request(op, post_id, body,
                                 get_current_user(authorization.credentials[1]).username[1])})
         /\ response' = NoResponseYet
         /\ UNCHANGED <<stores, now, issued, history>>

\* Depends(get_current_user), itself depending on security: a refusal or a 401
\* ends the request, otherwise the request waits for its endpoint function
\* with the username it was authenticated as
Resolve(op, post_id, body, authorization) ==
    \E credentials \in security(authorization) :
        IF credentials.status # HTTP_200_OK
        THEN Reject(Raised(op, None, post_id, credentials))
        ELSE LET auth == get_current_user(authorization.credentials[1])
             IN  IF auth.status # HTTP_200_OK
                 THEN Reject(Raised(op, None, post_id, auth))
                 ELSE /\ pending' = pending (+)
                            SetToBag({Request(op, post_id, body, auth.username[1])})
                      /\ response' = NoResponseYet
                      /\ UNCHANGED <<stores, now, issued, history>>

\* a request in flight leaves the bag when its endpoint function is called
Called(op, r) ==
    /\ r.op = op
    /\ pending' = pending (-) SetToBag({r})

\* the endpoint functions, each called for a request in flight

RunCreatePost ==
    \E r \in BagToSet(pending) :
        /\ Called("create_post", r)
        /\ create_post(r.body[1], r.current_user)

RunUpdatePost ==
    \E r \in BagToSet(pending) :
        /\ Called("update_post", r)
        /\ update_post(r.post_id, r.body[1], r.current_user)

RunDeletePost ==
    \E r \in BagToSet(pending) :
        /\ Called("delete_post", r)
        /\ delete_post(r.post_id, r.current_user)

RunLikePost ==
    \E r \in BagToSet(pending) :
        /\ Called("like_post", r)
        /\ like_post(r.post_id, r.current_user)

RunUnlikePost ==
    \E r \in BagToSet(pending) :
        /\ Called("unlike_post", r)
        /\ unlike_post(r.post_id, r.current_user)

RunAddComment ==
    \E r \in BagToSet(pending) :
        /\ Called("add_comment", r)
        /\ add_comment(r.post_id, r.body[1], r.current_user)

----------------------------------------------------------------------------
(* Spec: posts, likes and comments of two users, one request at a time,    *)
(* the clock standing still                                                 *)

PostIds == 1..MaxPosts

Register ==
    /\ OneAtATime
    /\ \E u \in Usernames : register(User(u, "a@x.com", pw1), "s1")

Login ==
    /\ OneAtATime
    /\ \E u \in Usernames, p \in {pw1, pw2} : login(UserLogin(u, p))

CreatePost ==
    /\ OneAtATime
    /\ \E a \in BearerAuthorizations, author \in {None, Some("bob")} :
           /\ post_counter < MaxPosts \/ Unauthenticated(a)
           /\ Resolve("create_post", 0, <<BlogPost("hello", "world", author)>>, a)

GetAllPosts == OneAtATime /\ get_all_posts

GetPost == OneAtATime /\ \E p \in PostIds : get_post(p)

UpdatePost ==
    /\ OneAtATime
    /\ \E p \in PostIds, a \in BearerAuthorizations, t \in {None, Some("again")} :
           Resolve("update_post", p, <<BlogPostUpdate(t, None)>>, a)

DeletePost ==
    /\ OneAtATime
    /\ \E p \in PostIds, a \in BearerAuthorizations :
           Resolve("delete_post", p, <<>>, a)

LikePost ==
    /\ OneAtATime
    /\ \E p \in PostIds, a \in BearerAuthorizations : Resolve("like_post", p, <<>>, a)

UnlikePost ==
    /\ OneAtATime
    /\ \E p \in PostIds, a \in BearerAuthorizations :
           Resolve("unlike_post", p, <<>>, a)

AddComment ==
    /\ OneAtATime
    /\ \E p \in PostIds, a \in BearerAuthorizations :
           /\ \/ comment_counter < MaxComments
              \/ Unauthenticated(a)
              \/ p \notin DOMAIN posts_db
           /\ Resolve("add_comment", p, <<Comment("nice!")>>, a)

GetComments == OneAtATime /\ \E p \in PostIds : get_comments(p)

Next ==
    \/ Register
    \/ Login
    \/ CreatePost
    \/ RunCreatePost
    \/ GetAllPosts
    \/ GetPost
    \/ UpdatePost
    \/ RunUpdatePost
    \/ DeletePost
    \/ RunDeletePost
    \/ LikePost
    \/ RunLikePost
    \/ UnlikePost
    \/ RunUnlikePost
    \/ AddComment
    \/ RunAddComment
    \/ GetComments

Spec == Init /\ [][Next]_vars

----------------------------------------------------------------------------
(* SpecOwner: an author and another user at a post, the clock running.     *)
(* Each client logs in once and keeps its token.                            *)

PostIdsOwner == 1..MaxPostsOwner

LoginOwner ==
    /\ OneAtATime
    /\ \E u \in Usernames :
           /\ \A r \in issued : r.user # u
           /\ login(UserLogin(u, pw1))

CreatePostOwner ==
    /\ OneAtATime
    /\ \E a \in BearerAuthorizations :
           /\ post_counter < MaxPostsOwner \/ Unauthenticated(a)
           /\ Resolve("create_post", 0, <<BlogPost("hello", "world", None)>>, a)

UpdatePostOwner ==
    /\ OneAtATime
    /\ \E p \in PostIdsOwner, a \in BearerAuthorizations,
          t \in {None, Some("again")}, c \in {None, Some("moon")} :
           Resolve("update_post", p, <<BlogPostUpdate(t, c)>>, a)

DeletePostOwner ==
    /\ OneAtATime
    /\ \E p \in PostIdsOwner, a \in BearerAuthorizations :
           Resolve("delete_post", p, <<>>, a)

LikePostOwner ==
    /\ OneAtATime
    /\ \E p \in PostIdsOwner, a \in BearerAuthorizations :
           Resolve("like_post", p, <<>>, a)

AddCommentOwner ==
    /\ OneAtATime
    /\ \E p \in PostIdsOwner, a \in BearerAuthorizations :
           /\ \/ comment_counter < MaxCommentsOwner
              \/ Unauthenticated(a)
              \/ p \notin DOMAIN posts_db
           /\ Resolve("add_comment", p, <<Comment("nice!")>>, a)

TickOwner == Tick(MaxTicksOwner)

NextOwner ==
    \/ Register
    \/ LoginOwner
    \/ CreatePostOwner
    \/ RunCreatePost
    \/ UpdatePostOwner
    \/ RunUpdatePost
    \/ DeletePostOwner
    \/ RunDeletePost
    \/ LikePostOwner
    \/ RunLikePost
    \/ AddCommentOwner
    \/ RunAddComment
    \/ TickOwner

SpecOwner == Init /\ [][NextOwner]_vars

----------------------------------------------------------------------------
(* SpecList: one user creating, editing and deleting posts while the clock *)
(* runs, and the list of all posts.                                         *)

PostIdsList == 1..MaxPostsList

RegisterList == OneAtATime /\ register(User("alice", "a@x.com", pw1), "s1")

LoginList ==
    /\ OneAtATime
    /\ issued = {}
    /\ login(UserLogin("alice", pw1))

CreatePostList ==
    /\ OneAtATime
    /\ \E a \in BearerAuthorizations :
           /\ post_counter < MaxPostsList \/ Unauthenticated(a)
           /\ Resolve("create_post", 0, <<BlogPost("hello", "world", None)>>, a)

UpdatePostList ==
    /\ OneAtATime
    /\ \E p \in PostIdsList, a \in BearerAuthorizations :
           Resolve("update_post", p, <<BlogPostUpdate(None, None)>>, a)

DeletePostList ==
    /\ OneAtATime
    /\ \E p \in PostIdsList, a \in BearerAuthorizations :
           Resolve("delete_post", p, <<>>, a)

TickList == Tick(MaxTicksList)

NextList ==
    \/ RegisterList
    \/ LoginList
    \/ CreatePostList
    \/ RunCreatePost
    \/ UpdatePostList
    \/ RunUpdatePost
    \/ DeletePostList
    \/ RunDeletePost
    \/ GetAllPosts
    \/ TickList

SpecList == Init /\ [][NextList]_vars

----------------------------------------------------------------------------
(* SpecExpiry: tokens issued at different times, presented until after     *)
(* they expire.  One of the users has registered under the name "None".     *)

UsernamesExpiry == {"alice", "None"}

RegisterExpiry ==
    /\ OneAtATime
    /\ \E u \in UsernamesExpiry : register(User(u, "a@x.com", pw1), "s1")

LoginExpiry ==
    /\ OneAtATime
    /\ Cardinality(issued) < MaxTokensExpiry
    /\ \E u \in UsernamesExpiry : login(UserLogin(u, pw1))

CreatePostExpiry ==
    /\ OneAtATime
    /\ \E a \in BearerAuthorizations :
           /\ post_counter < MaxPostsExpiry \/ Unauthenticated(a)
           /\ Resolve("create_post", 0, <<BlogPost("hello", "world", None)>>, a)

TickExpiry == Tick(MaxTicksExpiry)

NextExpiry ==
    \/ RegisterExpiry
    \/ LoginExpiry
    \/ CreatePostExpiry
    \/ RunCreatePost
    \/ TickExpiry

SpecExpiry == Init /\ [][NextExpiry]_vars

----------------------------------------------------------------------------
(* SpecRegister: registrations and logins with differing emails, passwords *)
(* and salts, among other requests.                                         *)

Emails == {"a@x.com", "b@x.com"}

\* a password of 73 bytes: 72 times "a", then last
LongPassword(last) ==
    [i \in 1..(BcryptMaxBytes + 1) |-> IF i <= BcryptMaxBytes THEN "a" ELSE last]

\* a short password and two long ones that differ in nothing but byte 73
Passwords == {pw1, LongPassword("b"), LongPassword("c")}

Salts == {"s1", "s2"}

RegisterAny ==
    /\ OneAtATime
    /\ \E u \in Usernames, e \in Emails, p \in Passwords, salt \in Salts :
           register(User(u, e, p), salt)

LoginAny ==
    /\ OneAtATime
    /\ \E u \in Usernames, p \in Passwords : login(UserLogin(u, p))

CreatePostRegister ==
    /\ OneAtATime
    /\ \E a \in BearerAuthorizations :
           /\ post_counter < MaxPostsRegister \/ Unauthenticated(a)
           /\ Resolve("create_post", 0, <<BlogPost("hello", "world", None)>>, a)

DeletePostRegister ==
    /\ OneAtATime
    /\ \E p \in 1..MaxPostsRegister, a \in BearerAuthorizations :
           Resolve("delete_post", p, <<>>, a)

LikePostRegister ==
    /\ OneAtATime
    /\ \E p \in 1..MaxPostsRegister, a \in BearerAuthorizations :
           Resolve("like_post", p, <<>>, a)

NextRegister ==
    \/ RegisterAny
    \/ LoginAny
    \/ CreatePostRegister
    \/ RunCreatePost
    \/ DeletePostRegister
    \/ RunDeletePost
    \/ LikePostRegister
    \/ RunLikePost

SpecRegister == Init /\ [][NextRegister]_vars

----------------------------------------------------------------------------
(* Requests in flight together: clients that do not wait for the response  *)
(* of one request before they send the next.                               *)

\* at most MaxInFlight requests wait for their endpoint function
RoomInFlight == BagCardinality(pending) < MaxInFlight

(* SpecConcurrent: two clients sending create_post and add_comment         *)
(* requests without waiting for the responses.                             *)

RegisterConcurrent == \E u \in Usernames : register(User(u, "a@x.com", pw1), "s1")

LoginConcurrent ==
    \E u \in Usernames :
        /\ \A r \in issued : r.user # u
        /\ login(UserLogin(u, pw1))

ResolveCreatePost ==
    \E a \in BearerAuthorizations :
        /\ \/ /\ RoomInFlight
              /\ post_counter + Cardinality(InFlight("create_post")) < MaxPostsConcurrent
           \/ Unauthenticated(a)
        /\ Resolve("create_post", 0, <<BlogPost("hello", "world", None)>>, a)

ResolveAddComment ==
    \E p \in 1..MaxPostsConcurrent, a \in BearerAuthorizations :
        /\ \/ /\ RoomInFlight
              /\ comment_counter + Cardinality(InFlight("add_comment"))
                     < MaxCommentsConcurrent
           \/ Unauthenticated(a)
        /\ Resolve("add_comment", p, <<Comment("nice!")>>, a)

NextConcurrent ==
    \/ RegisterConcurrent
    \/ LoginConcurrent
    \/ ResolveCreatePost
    \/ RunCreatePost
    \/ ResolveAddComment
    \/ RunAddComment

SpecConcurrent == Init /\ [][NextConcurrent]_vars

(* SpecCascade: delete_post in flight together with like_post, add_comment *)
(* and create_post requests of the same user.                              *)

PostIdsCascade == 1..MaxPostsCascade

RegisterCascade == register(User("alice", "a@x.com", pw1), "s1")

LoginCascade ==
    /\ issued = {}
    /\ login(UserLogin("alice", pw1))

ResolveCreatePostCascade ==
    \E a \in BearerAuthorizations :
        /\ \/ /\ RoomInFlight
              /\ post_counter + Cardinality(InFlight("create_post")) < MaxPostsCascade
           \/ Unauthenticated(a)
        /\ Resolve("create_post", 0, <<BlogPost("hello", "world", None)>>, a)

ResolveDeletePost ==
    \E p \in PostIdsCascade, a \in BearerAuthorizations :
        /\ RoomInFlight \/ Unauthenticated(a)
        /\ Resolve("delete_post", p, <<>>, a)

ResolveLikePost ==
    \E p \in PostIdsCascade, a \in BearerAuthorizations :
        /\ RoomInFlight \/ Unauthenticated(a)
        /\ Resolve("like_post", p, <<>>, a)

ResolveAddCommentCascade ==
    \E p \in PostIdsCascade, a \in BearerAuthorizations :
        /\ \/ /\ RoomInFlight
              /\ \/ comment_counter + Cardinality(InFlight("add_comment"))
                        < MaxCommentsCascade
                 \/ p \in deleted_ids
           \/ Unauthenticated(a)
        /\ Resolve("add_comment", p, <<Comment("nice!")>>, a)

NextCascade ==
    \/ RegisterCascade
    \/ LoginCascade
    \/ ResolveCreatePostCascade
    \/ RunCreatePost
    \/ ResolveDeletePost
    \/ RunDeletePost
    \/ ResolveLikePost
    \/ RunLikePost
    \/ ResolveAddCommentCascade
    \/ RunAddComment

SpecCascade == Init /\ [][NextCascade]_vars

----------------------------------------------------------------------------
(* SpecComments: one user commenting on several posts, deleting posts and  *)
(* reading the comments.                                                    *)

PostIdsComments == 1..MaxPostsComments

CreatePostComments ==
    /\ OneAtATime
    /\ \E a \in BearerAuthorizations :
           /\ post_counter < MaxPostsComments \/ Unauthenticated(a)
           /\ Resolve("create_post", 0, <<BlogPost("hello", "world", None)>>, a)

DeletePostComments ==
    /\ OneAtATime
    /\ \E p \in PostIdsComments, a \in BearerAuthorizations :
           Resolve("delete_post", p, <<>>, a)

AddCommentComments ==
    /\ OneAtATime
    /\ \E p \in PostIdsComments, a \in BearerAuthorizations :
           /\ \/ comment_counter < MaxCommentsComments
              \/ Unauthenticated(a)
              \/ p \notin DOMAIN posts_db
           /\ Resolve("add_comment", p, <<Comment("nice!")>>, a)

GetCommentsComments == OneAtATime /\ \E p \in PostIdsComments : get_comments(p)

NextComments ==
    \/ RegisterList
    \/ LoginList
    \/ CreatePostComments
    \/ RunCreatePost
    \/ DeletePostComments
    \/ RunDeletePost
    \/ AddCommentComments
    \/ RunAddComment
    \/ GetCommentsComments

SpecComments == Init /\ [][NextComments]_vars

----------------------------------------------------------------------------
(* SpecUpdate: one user editing liked and commented posts while the clock   *)
(* runs, with empty patches and patches that repeat the stored values.      *)

PostIdsUpdate == 1..MaxPostsUpdate

\* the title a patch can carry: none, or a new one, which is the string "None"
PatchTitles == {None, Some("None")}

PatchContents == {None, Some("moon")}

CreatePostUpdate ==
    /\ OneAtATime
    /\ \E a \in BearerAuthorizations :
           /\ post_counter < MaxPostsUpdate \/ Unauthenticated(a)
           /\ Resolve("create_post", 0, <<BlogPost("hello", "world", None)>>, a)

UpdatePostUpdate ==
    /\ OneAtATime
    /\ \E p \in PostIdsUpdate, a \in BearerAuthorizations,
          t \in PatchTitles, c \in PatchContents :
           Resolve("update_post", p, <<BlogPostUpdate(t, c)>>, a)

LikePostUpdate ==
    /\ OneAtATime
    /\ \E p \in PostIdsUpdate, a \in BearerAuthorizations :
           Resolve("like_post", p, <<>>, a)

AddCommentUpdate ==
    /\ OneAtATime
    /\ \E p \in PostIdsUpdate, a \in BearerAuthorizations :
           /\ \/ comment_counter < MaxCommentsUpdate
              \/ Unauthenticated(a)
              \/ p \notin DOMAIN posts_db
           /\ Resolve("add_comment", p, <<Comment("nice!")>>, a)

TickUpdate == Tick(MaxTicksUpdate)

NextUpdate ==
    \/ RegisterList
    \/ LoginList
    \/ CreatePostUpdate
    \/ RunCreatePost
    \/ UpdatePostUpdate
    \/ RunUpdatePost
    \/ LikePostUpdate
    \/ RunLikePost
    \/ AddCommentUpdate
    \/ RunAddComment
    \/ TickUpdate

SpecUpdate == Init /\ [][NextUpdate]_vars

----------------------------------------------------------------------------
(* SpecOrder: the mutating endpoints called by the author, by another user, *)
(* with a forged token and with a token that has expired, on a post that    *)
(* exists, does not exist yet or was deleted.                               *)

PostIdsOrder == 1..MaxPostsOrder

\* the requests of SpecOrder: endpoint, post id and body
RequestsOrder ==
    {<<"create_post", 0, <<BlogPost("hello", "world", None)>>>>}
        \cup {<<"update_post", p, <<BlogPostUpdate(None, None)>>>> : p \in PostIdsOrder}
        \cup {<<op, p, <<>>>> : op \in {"delete_post", "like_post", "unlike_post"},
                                p \in PostIdsOrder}
        \cup {<<"add_comment", p, <<Comment("nice!")>>>> : p \in PostIdsOrder}

CreatePostOrder ==
    /\ OneAtATime
    /\ \E a \in BearerAuthorizations :
           /\ post_counter < MaxPostsOrder \/ Unauthenticated(a)
           /\ Resolve("create_post", 0, <<BlogPost("hello", "world", None)>>, a)

UpdatePostOrder ==
    /\ OneAtATime
    /\ \E p \in PostIdsOrder, a \in BearerAuthorizations :
           Resolve("update_post", p, <<BlogPostUpdate(None, None)>>, a)

DeletePostOrder ==
    /\ OneAtATime
    /\ \E p \in PostIdsOrder, a \in BearerAuthorizations :
           Resolve("delete_post", p, <<>>, a)

LikePostOrder ==
    /\ OneAtATime
    /\ \E p \in PostIdsOrder, a \in BearerAuthorizations : Resolve("like_post", p, <<>>, a)

UnlikePostOrder ==
    /\ OneAtATime
    /\ \E p \in PostIdsOrder, a \in BearerAuthorizations :
           Resolve("unlike_post", p, <<>>, a)

AddCommentOrder ==
    /\ OneAtATime
    /\ \E p \in PostIdsOrder, a \in BearerAuthorizations :
           /\ \/ comment_counter < MaxCommentsOrder
              \/ Unauthenticated(a)
              \/ p \notin DOMAIN posts_db
           /\ Resolve("add_comment", p, <<Comment("nice!")>>, a)

\* the lifetime of a token passes
ExpireOrder ==
    /\ now + ACCESS_TOKEN_EXPIRE_MINUTES <= ACCESS_TOKEN_EXPIRE_MINUTES * MaxExpiriesOrder
    /\ now' = now + ACCESS_TOKEN_EXPIRE_MINUTES
    /\ UNCHANGED <<stores, issued, pending, response, history>>

NextOrder ==
    \/ Register
    \/ LoginOwner
    \/ CreatePostOrder
    \/ RunCreatePost
    \/ UpdatePostOrder
    \/ RunUpdatePost
    \/ DeletePostOrder
    \/ RunDeletePost
    \/ LikePostOrder
    \/ RunLikePost
    \/ UnlikePostOrder
    \/ RunUnlikePost
    \/ AddCommentOrder
    \/ RunAddComment
    \/ ExpireOrder

SpecOrder == Init /\ [][NextOrder]_vars

----------------------------------------------------------------------------
(* SpecLikes: two users liking and unliking two posts.                      *)

PostIdsLikes == 1..MaxPostsLikes

CreatePostLikes ==
    /\ OneAtATime
    /\ \E a \in BearerAuthorizations :
           /\ post_counter < MaxPostsLikes \/ Unauthenticated(a)
           /\ Resolve("create_post", 0, <<BlogPost("hello", "world", None)>>, a)

LikePostLikes ==
    /\ OneAtATime
    /\ \E p \in PostIdsLikes, a \in BearerAuthorizations :
           Resolve("like_post", p, <<>>, a)

UnlikePostLikes ==
    /\ OneAtATime
    /\ \E p \in PostIdsLikes, a \in BearerAuthorizations :
           Resolve("unlike_post", p, <<>>, a)

AddCommentLikes ==
    /\ OneAtATime
    /\ \E p \in PostIdsLikes, a \in BearerAuthorizations :
           /\ \/ comment_counter < MaxCommentsLikes
              \/ Unauthenticated(a)
              \/ p \notin DOMAIN posts_db
           /\ Resolve("add_comment", p, <<Comment("nice!")>>, a)

NextLikes ==
    \/ Register
    \/ LoginOwner
    \/ CreatePostLikes
    \/ RunCreatePost
    \/ LikePostLikes
    \/ RunLikePost
    \/ UnlikePostLikes
    \/ RunUnlikePost
    \/ AddCommentLikes
    \/ RunAddComment

SpecLikes == Init /\ [][NextLikes]_vars

----------------------------------------------------------------------------
(* SpecGone: a user creating, liking, commenting and deleting posts, with   *)
(* posts created after a delete, and every endpoint that takes a post id    *)
(* called on posts that exist, do not exist yet or were deleted.            *)

PostIdsGone == 1..MaxPostsGone

CreatePostGone ==
    /\ OneAtATime
    /\ \E a \in BearerAuthorizations :
           /\ post_counter < MaxPostsGone \/ Unauthenticated(a)
           /\ Resolve("create_post", 0, <<BlogPost("hello", "world", None)>>, a)

DeletePostGone ==
    /\ OneAtATime
    /\ \E p \in PostIdsGone, a \in BearerAuthorizations :
           Resolve("delete_post", p, <<>>, a)

LikePostGone ==
    /\ OneAtATime
    /\ \E p \in PostIdsGone, a \in BearerAuthorizations :
           Resolve("like_post", p, <<>>, a)

UnlikePostGone ==
    /\ OneAtATime
    /\ \E p \in PostIdsGone, a \in BearerAuthorizations :
           Resolve("unlike_post", p, <<>>, a)

AddCommentGone ==
    /\ OneAtATime
    /\ \E p \in PostIdsGone, a \in BearerAuthorizations :
           /\ \/ comment_counter < MaxCommentsGone
              \/ Unauthenticated(a)
              \/ p \notin DOMAIN posts_db
           /\ Resolve("add_comment", p, <<Comment("nice!")>>, a)

GetPostGone == OneAtATime /\ \E p \in PostIdsGone : get_post(p)

GetCommentsGone == OneAtATime /\ \E p \in PostIdsGone : get_comments(p)

NextGone ==
    \/ RegisterList
    \/ LoginList
    \/ CreatePostGone
    \/ RunCreatePost
    \/ DeletePostGone
    \/ RunDeletePost
    \/ LikePostGone
    \/ RunLikePost
    \/ UnlikePostGone
    \/ RunUnlikePost
    \/ AddCommentGone
    \/ RunAddComment
    \/ GetAllPosts
    \/ GetPostGone
    \/ GetCommentsGone

SpecGone == Init /\ [][NextGone]_vars

----------------------------------------------------------------------------
(* Properties *)

Mutating == {"create_post", "update_post", "delete_post", "like_post",
             "unlike_post", "add_comment"}

Succeeded(op) == response.op = op /\ response.status = HTTP_200_OK

\* C1: every successful create_post returns an id strictly greater than the id
\* of every earlier successful create_post, the first being 1, also across
\* deletions: the id of a deleted post is not stored again, and the id just
\* returned is the last of the ids returned so far.
C1_IdsStrictlyIncreasing ==
    /\ \A i, j \in 1..Len(created_ids) : i < j => created_ids[i] < created_ids[j]
    /\ created_ids # <<>> => created_ids[1] = 1
    /\ deleted_ids \cap DOMAIN posts_db = {}
    /\ Succeeded("create_post") =>
           /\ response.body[1].id = created_ids[Len(created_ids)]
           /\ response.body[1].id \notin deleted_ids

\* post 1 was deleted, and the create_post that followed returned id 2
C1_Witness ==
    /\ Succeeded("create_post")
    /\ response.body[1].id = 2
    /\ 1 \in deleted_ids

\* C3: once delete_post of p has succeeded, whatever requests follow (the
\* creation of new posts among them), p is not stored again and is not in
\* get_all_posts, get_post and get_comments on p return 404, like_post,
\* unlike_post and add_comment on p return 404 (401 for a caller whose token
\* does not authenticate, never a success), and no response carries a comment
\* that p had.
C3_DeletedStaysGone ==
    \A p \in deleted_ids :
        /\ p \notin DOMAIN posts_db
        /\ p \notin DOMAIN likes_db
        /\ p \notin DOMAIN comments_db
        /\ \A i \in 1..Len(SortedDesc(AllPostResponses)) :
               SortedDesc(AllPostResponses)[i].id # p
        /\ Succeeded("get_all_posts") =>
               \A i \in 1..Len(response.body) : response.body[i].id # p
        /\ (response.post_id = p /\ response.op \in {"get_post", "get_comments"}) =>
               response.status = HTTP_404_NOT_FOUND
        /\ (response.post_id = p
              /\ response.op \in {"like_post", "unlike_post", "add_comment"}) =>
               /\ response.user = None => response.status = HTTP_401_UNAUTHORIZED
               /\ response.user # None => response.status = HTTP_404_NOT_FOUND
        /\ response.op \in {"get_comments", "add_comment"} =>
               \A i \in 1..Len(response.body) : response.body[i].id \notin gone_comments

\* post 1 was deleted with a comment it had, and get_all_posts has then listed
\* post 2 alone, with a comment of its own
C3_Witness ==
    /\ Succeeded("get_all_posts")
    /\ Len(response.body) = 1
    /\ response.body[1].id = 2
    /\ response.body[1].comments_count = 1
    /\ 1 \in deleted_ids
    /\ gone_comments # {}

\* C4: a request to a mutating endpoint that is answered 401, 404 or 403 leaves
\* users, posts, like-sets, comment sequences and both counters as they were.
C4_FailureChangesNothing ==
    [][(/\ response'.op \in Mutating
        /\ response'.status \in {HTTP_401_UNAUTHORIZED, HTTP_404_NOT_FOUND,
                                 HTTP_403_FORBIDDEN})
       => UNCHANGED stores]_vars

\* an add_comment on a missing post was answered 404 after comments were made
C4_Witness ==
    /\ response.op = "add_comment"
    /\ response.status = HTTP_404_NOT_FOUND
    /\ comment_counter > 0
    /\ post_counter > 0

\* C5: like_post by a user who already likes the post is answered 400 and
\* unlike_post on an existing post by a user who does not like it is answered
\* 400; both leave every like-set, and so the like count, unchanged.
C5_DuplicateLikeRejected ==
    [][/\ (/\ response'.op = "like_post"
           /\ response'.post_id \in DOMAIN posts_db
           /\ response'.post_id \in DOMAIN likes_db
           /\ response'.user # None
           /\ response'.user[1] \in likes_db[response'.post_id])
          => (response'.status = HTTP_400_BAD_REQUEST /\ UNCHANGED likes_db)
       /\ (/\ response'.op = "unlike_post"
           /\ response'.post_id \in DOMAIN posts_db
           /\ response'.user # None
           /\ response'.user[1] \notin Get(likes_db, response'.post_id, {}))
          => (response'.status = HTTP_400_BAD_REQUEST /\ UNCHANGED likes_db)
      ]_vars

\* bob's second like of a post was answered 400 while the post has a like
C5_Witness ==
    /\ response.op = "like_post"
    /\ response.status = HTTP_400_BAD_REQUEST
    /\ response.user[1] \in likes_db[response.post_id]

\* C6: for every post returned by get_post, get_all_posts and update_post, the
\* post has a like-set and a comment sequence, likes_count is the size of the
\* like-set, and comments_count is the length of the comment sequence, which is
\* the number of successful add_comment requests on the post.
C6_CountsMatchStores ==
    /\ DOMAIN posts_db \subseteq (DOMAIN likes_db \cap DOMAIN comments_db)
    /\ \A p \in DOMAIN posts_db : Len(comments_db[p]) = Get(added, p, 0)
    /\ (response.status = HTTP_200_OK
          /\ response.op \in {"get_post", "get_all_posts", "update_post"}) =>
           \A i \in 1..Len(response.body) :
               LET r == response.body[i]
               IN  /\ r.id \in DOMAIN posts_db
                   /\ r.likes_count = Cardinality(likes_db[r.id])
                   /\ r.comments_count = Len(comments_db[r.id])
                   /\ r.comments_count = Get(added, r.id, 0)

\* update_post returned a post with two likes and a comment
C6_Witness ==
    /\ Succeeded("update_post")
    /\ response.body[1].likes_count = 2
    /\ response.body[1].comments_count = 1

\* C2: update_post and delete_post on an existing post by an authenticated
\* user who is not its author are answered 403 and leave the post record
\* (title, content, updated_at), every like-set and every comment sequence as
\* they were.
C2_OnlyAuthorMutates ==
    [][(/\ response'.op \in {"update_post", "delete_post"}
        /\ response'.post_id \in DOMAIN posts_db
        /\ response'.user # None
        /\ response'.user[1] # posts_db[response'.post_id].author)
       => /\ response'.status = HTTP_403_FORBIDDEN
          /\ UNCHANGED <<posts_db, posts_keys, likes_db, comments_db>>]_vars

\* the other user's update of a liked and commented post, sent after the clock
\* moved on from the post's updated_at, was answered 403
C2_Witness ==
    /\ response.op = "update_post"
    /\ response.status = HTTP_403_FORBIDDEN
    /\ response.post_id \in DOMAIN posts_db
    /\ likes_db[response.post_id] # {}
    /\ comments_db[response.post_id] # <<>>
    /\ now > posts_db[response.post_id].updated_at

\* C7: get_all_posts returns exactly the stored posts, each once and with its
\* stored fields, and for every two adjacent posts of the result the earlier
\* one has a created_at greater than or equal to the later one.
C7_AllPostsNewestFirst ==
    Succeeded("get_all_posts") =>
        /\ Len(response.body) = Cardinality(DOMAIN posts_db)
        /\ {response.body[i].id : i \in 1..Len(response.body)} = DOMAIN posts_db
        /\ \A i \in 1..Len(response.body) :
               LET r == response.body[i]
               IN  r.id \in DOMAIN posts_db =>
                       /\ r.created_at = posts_db[r.id].created_at
                       /\ r.author = posts_db[r.id].author
                       /\ r.title = posts_db[r.id].title
        /\ \A i \in 1..(Len(response.body) - 1) :
               response.body[i].created_at >= response.body[i + 1].created_at

\* three posts created at three different times were listed
C7_Witness ==
    /\ Succeeded("get_all_posts")
    /\ Len(response.body) = 3
    /\ response.body[1].created_at > response.body[2].created_at
    /\ response.body[2].created_at > response.body[3].created_at

\* C8: get_all_posts returns the posts in id-descending order, also when two
\* or more of them carry the same created_at.
C8_NewestFirstById ==
    Succeeded("get_all_posts") =>
        \A i, j \in 1..Len(response.body) :
            i < j => response.body[i].id > response.body[j].id

\* C9: a token login issued for user U at time t authenticates as U at every
\* time before t + 30 minutes, whatever requests were made in between, and is
\* rejected with 401 at every time after t + 30 minutes, U still being
\* registered.
C9_TokenValidUntilExpiry ==
    \A r \in issued :
        /\ r.user \in DOMAIN users_db
        /\ now < r.at + ACCESS_TOKEN_EXPIRE_MINUTES =>
               get_current_user(r.token) = Authenticated(r.user)
        /\ now > r.at + ACCESS_TOKEN_EXPIRE_MINUTES =>
               get_current_user(r.token).status = HTTP_401_UNAUTHORIZED

\* one token has expired while a later one, of the user whose name is the
\* string "None", is still good, and a post was created in between
C9_Witness ==
    /\ post_counter > 0
    /\ \E r \in issued :
           /\ now > r.at + ACCESS_TOKEN_EXPIRE_MINUTES
           /\ get_current_user(r.token).status = HTTP_401_UNAUTHORIZED
    /\ \E r \in issued :
           /\ r.at > 0
           /\ now > r.at
           /\ r.user = "None"
           /\ get_current_user(r.token) = Authenticated("None")

\* C10: register with a username that is already registered is answered 400
\* and leaves users_db unchanged: the record keeps the email and the password
\* hash of the first registration, so the first password still verifies
\* against it and no other password, whatever the second registration sent,
\* does; no step removes or changes a user record, and every token was
\* obtained with the password of the first registration.
C10_DuplicateRegistrationRejected ==
    [][/\ (response'.op = "register" /\ response'.user[1] \in DOMAIN users_db) =>
              /\ response'.status = HTTP_400_BAD_REQUEST
              /\ UNCHANGED users_db
              /\ LET u == response'.user[1]
                 IN  /\ users_db'[u].email = registered'[u].email
                     /\ \A p \in Passwords :
                            verify_password(p, users_db'[u].hashed_password)
                                <=> (p = registered'[u].password)
       /\ \A u \in DOMAIN users_db :
              u \in DOMAIN users_db' /\ users_db'[u] = users_db[u]
       /\ \A u \in DOMAIN users_db' :
              /\ u \in DOMAIN registered'
              /\ users_db'[u].email = registered'[u].email
       /\ \A r \in issued' : r.password = registered'[r.user].password
      ]_vars

\* C11: a failed login is answered 401 with the detail "Incorrect username or
\* password" and an empty body, the same response for an unknown username as
\* for a wrong password (it is a function of nothing but the request); a login
\* with an unknown username fails, a successful one used a password that
\* verifies, and no login, failed or not, changes a store.
C11_LoginFailureUniform ==
    [][response'.op = "login" =>
         /\ UNCHANGED stores
         /\ response'.status \in {HTTP_200_OK, HTTP_401_UNAUTHORIZED}
         /\ response'.user[1] \notin DOMAIN users_db =>
                response'.status = HTTP_401_UNAUTHORIZED
         /\ response'.status # HTTP_200_OK =>
                /\ response' = Response("login", response'.user, 0, HTTP_401_UNAUTHORIZED,
                                        "Incorrect username or password", <<>>)
                /\ UNCHANGED issued
         /\ response'.status = HTTP_200_OK =>
                \E r \in issued' :
                    /\ r.token = response'.body[1].access_token
                    /\ r.user = response'.user[1]
                    /\ verify_password(r.password, users_db[r.user].hashed_password)
      ]_vars

\* a login with an unknown username was answered 401 while another user is
\* registered and has logged in
C11_Witness ==
    /\ response.op = "login"
    /\ response.status = HTTP_401_UNAUTHORIZED
    /\ response.user[1] \notin DOMAIN users_db
    /\ users_db # <<>>
    /\ issued # {}

\* C12: with create_post and add_comment requests of two users in flight
\* together, no two requests obtain the same id (the ids returned are 1, 2, ...
\* in the order the endpoint functions ran, the comment ids stored are pairwise
\* different), every post is stored under its own id and every comment under
\* its post_id, and nothing is lost or overwritten: every post created is
\* stored, and a post holds as many comments as add_comment succeeded on it.
C12_ConcurrentIdsDistinct ==
    /\ Len(created_ids) = post_counter
    /\ \A i \in 1..Len(created_ids) : created_ids[i] = i
    /\ DOMAIN posts_db = {created_ids[i] : i \in 1..Len(created_ids)} \ deleted_ids
    /\ \A k \in DOMAIN posts_db : posts_db[k].id = k
    /\ \A p \in DOMAIN comments_db :
           /\ Len(comments_db[p]) = Get(added, p, 0)
           /\ \A i \in 1..Len(comments_db[p]) : comments_db[p][i].post_id = p
    /\ \A p, q \in DOMAIN comments_db :
           \A i \in 1..Len(comments_db[p]), j \in 1..Len(comments_db[q]) :
               comments_db[p][i].id = comments_db[q][j].id => (p = q /\ i = j)
    /\ StoredCommentIds \cup gone_comments = 1..comment_counter
    /\ (Succeeded("create_post") \/ Succeeded("add_comment")) =>
           response.body[1].id \in
               IF response.op = "create_post" THEN DOMAIN posts_db ELSE StoredCommentIds

\* a post holds two comments of different users, the second just added while
\* a create_post of the user who is not the post's author is in flight
C12_Witness ==
    /\ Succeeded("add_comment")
    /\ response.body[1].id = 2
    /\ Len(comments_db[response.post_id]) = 2
    /\ comments_db[response.post_id][1].author # comments_db[response.post_id][2].author
    /\ \E r \in InFlight("create_post") :
           r.current_user # posts_db[response.post_id].author

\* C13: with delete_post, like_post and add_comment requests on a post in
\* flight together, every state a request can observe has a like-set and a
\* comment sequence exactly for the stored posts, so a deleted post has neither,
\* also after a like_post or add_comment on it that was in flight during the
\* delete has run: that request is answered 404 and stores nothing.
C13_CascadeAtomic ==
    /\ DOMAIN likes_db = DOMAIN posts_db
    /\ DOMAIN comments_db = DOMAIN posts_db
    /\ \A p \in deleted_ids :
           /\ p \notin DOMAIN posts_db \cup DOMAIN likes_db \cup DOMAIN comments_db
           /\ (/\ response.op \in {"like_post", "add_comment"}
               /\ response.post_id = p
               /\ response.user # None) => response.status = HTTP_404_NOT_FOUND
    /\ \A c \in gone_comments : c \notin StoredCommentIds

\* a post that had a comment was deleted, a like_post on it has then been
\* answered 404, and an add_comment on it is still in flight
C13_Witness ==
    /\ response.op = "like_post"
    /\ response.status = HTTP_404_NOT_FOUND
    /\ response.post_id \in deleted_ids
    /\ gone_comments # {}
    /\ \E r \in InFlight("add_comment") : r.post_id = response.post_id

\* C14: a successful add_comment returns the id one above the counter, which
\* is greater than the id of every comment made before on any post, stored or
\* deleted with its post (the first id is 1); an add_comment that fails (at
\* authentication with 401 or 403, at the existence check with 404) leaves the
\* counter as it was; get_comments returns the comments of the
\* post in the order they were added, their ids strictly increasing and their
\* post_id that of the post.
C14_CommentIdsIncrease ==
    [][/\ response'.op = "add_comment" =>
           IF response'.status = HTTP_200_OK
           THEN /\ response'.body[1].id = comment_counter + 1
                /\ comment_counter' = response'.body[1].id
                /\ \A c \in StoredCommentIds \cup gone_comments :
                       c < response'.body[1].id
                /\ comment_counter = 0 => response'.body[1].id = 1
                /\ response'.body[1].post_id = response'.post_id
                /\ comments_db'[response'.post_id] =
                       Append(comments_db[response'.post_id], response'.body[1])
           ELSE /\ IF response'.user = None
                   THEN response'.status \in {HTTP_401_UNAUTHORIZED, HTTP_403_FORBIDDEN}
                   ELSE response'.status = HTTP_404_NOT_FOUND
                /\ UNCHANGED <<comment_counter, comments_db>>
       /\ response'.op # "add_comment" => UNCHANGED comment_counter
       /\ (response'.op = "get_comments" /\ response'.status = HTTP_200_OK) =>
           /\ response'.body = comments_db[response'.post_id]
           /\ Len(response'.body) = Get(added, response'.post_id, 0)
           /\ \A i \in 1..Len(response'.body) :
                  /\ response'.body[i].post_id = response'.post_id
                  /\ \A j \in 1..Len(response'.body) :
                         i < j => response'.body[i].id < response'.body[j].id
      ]_vars

\* the first post was deleted with its comment, and the comment then added to
\* the second post, which held one already, got id 3
C14_Witness ==
    /\ Succeeded("add_comment")
    /\ response.body[1].id = 3
    /\ response.post_id = 2
    /\ Len(comments_db[2]) = 2
    /\ 1 \in deleted_ids
    /\ gone_comments # {}

\* C15: a successful update_post gives the post the title and the content of
\* the patch where the patch has one and keeps the stored one where it has
\* none, and sets updated_at to the current time whatever the patch is (empty,
\* or repeating the stored values); id, author and created_at of the post, every
\* other post, every like-set, every comment sequence, the users and both
\* counters stay as they were, and the response shows the post as stored.
C15_UpdateTouchesOnlyPatch ==
    [][/\ \A p \in DOMAIN posts_db, t \in PatchTitles, c \in PatchContents :
              LET old == posts_db[p]
                  new == Updated(old, BlogPostUpdate(t, c))
              IN  /\ new.title = IF t # None THEN t[1] ELSE old.title
                  /\ new.content = IF c # None THEN c[1] ELSE old.content
                  /\ new.updated_at = now
                  /\ new.id = old.id
                  /\ new.author = old.author
                  /\ new.created_at = old.created_at
       /\ (response'.op = "update_post" /\ response'.status = HTTP_200_OK /\ now' = now) =>
              LET p == response'.post_id
              IN  /\ p \in DOMAIN posts_db
                  /\ DOMAIN posts_db' = DOMAIN posts_db
                  /\ \A q \in DOMAIN posts_db \ {p} : posts_db'[q] = posts_db[q]
                  /\ \E t \in PatchTitles, c \in PatchContents :
                         posts_db'[p] = Updated(posts_db[p], BlogPostUpdate(t, c))
                  /\ posts_db'[p].updated_at = now
                  /\ posts_db'[p].id = p
                  /\ posts_db'[p].author = posts_db[p].author
                  /\ posts_db'[p].created_at = posts_db[p].created_at
                  /\ response'.body = <<BlogPostResponse(posts_db'[p],
                                             Cardinality(likes_db[p]), Len(comments_db[p]))>>
                  /\ UNCHANGED <<users_db, posts_keys, likes_db, comments_db,
                                 post_counter, comment_counter>>
      ]_vars

\* an update that left title and content of a liked and commented post as they
\* were has moved its updated_at to the current time, later than its created_at
\* and than the updated_at of the other post, whose title an earlier update has
\* set to the string "None"
C15_Witness ==
    /\ Succeeded("update_post")
    /\ Cardinality(DOMAIN posts_db) = 2
    /\ LET p == response.post_id
       IN  /\ posts_db[p].title = "hello"
           /\ posts_db[p].content = "world"
           /\ posts_db[p].updated_at = now
           /\ posts_db[p].updated_at > posts_db[p].created_at
           /\ likes_db[p] # {}
           /\ comments_db[p] # <<>>
           /\ \E q \in DOMAIN posts_db \ {p} :
                  /\ posts_db[q].updated_at < now
                  /\ posts_db[q].title = "None"

\* a token that authenticates: signed with the key, not expired, and its
\* subject a registered user
ValidToken(token) ==
    /\ token.sig = "SECRET_KEY"
    /\ token.exp > now
    /\ token.sub # None
    /\ token.sub[1] \in DOMAIN users_db

\* C16: a request to create_post, update_post, delete_post, like_post,
\* unlike_post or add_comment whose token is forged or expired when it is
\* presented is answered 401 and changes nothing, whether the post exists, does
\* not exist yet or was deleted; a request whose token authenticates is passed
\* on to its endpoint function with the username of that token.  A request
\* that reached its endpoint function is never answered 401: on a missing post
\* it is answered 404, never 403, whoever sends it; 403 is the answer exactly
\* to update_post and delete_post of an existing post by a user who is not its
\* author.
C16_CheckOrder ==
    [][/\ \A q \in RequestsOrder, token \in Bearers :
              Resolve(q[1], q[2], q[3], Bearer(token)) =>
                  IF ValidToken(token)
                  THEN /\ response' = NoResponseYet
                       /\ pending' = pending (+)
                              SetToBag({Request(q[1], q[2], q[3], token.sub[1])})
                       /\ UNCHANGED stores
                  ELSE /\ response'.op = q[1]
                       /\ response'.post_id = q[2]
                       /\ response'.user = None
                       /\ response'.status = HTTP_401_UNAUTHORIZED
                       /\ UNCHANGED <<stores, pending>>
       /\ (response'.op \in Mutating /\ now' = now) =>
              /\ response'.user = None <=> response'.status = HTTP_401_UNAUTHORIZED
              /\ response'.user = None => UNCHANGED <<stores, pending>>
              /\ response'.user # None =>
                     /\ response'.user[1] \in DOMAIN users_db
                     /\ \E r \in BagToSet(pending) :
                            /\ r.op = response'.op
                            /\ r.op # "create_post" => r.post_id = response'.post_id
                            /\ r.current_user = response'.user[1]
                            /\ pending' = pending (-) SetToBag({r})
                     /\ (/\ response'.op # "create_post"
                         /\ response'.post_id \notin DOMAIN posts_db)
                            <=> response'.status = HTTP_404_NOT_FOUND
                     /\ (/\ response'.op \in {"update_post", "delete_post"}
                         /\ response'.post_id \in DOMAIN posts_db
                         /\ posts_db[response'.post_id].author # response'.user[1])
                            <=> response'.status = HTTP_403_FORBIDDEN
      ]_vars

\* every token login has issued has expired, and a delete_post on a post that
\* was deleted before has been answered 401, not 404
C16_Witness ==
    /\ response.op = "delete_post"
    /\ response.status = HTTP_401_UNAUTHORIZED
    /\ response.post_id \in deleted_ids
    /\ response.post_id \notin DOMAIN posts_db
    /\ issued # {}
    /\ \A r \in issued : r.token.exp <= now

\* C17: a successful like_post by u on p adds u, who was not in it, to the
\* like-set of p and returns the size the set had plus one; a successful
\* unlike_post by u on p takes u, who was in it, out of the set and returns
\* the size the set had minus one; so the unlike_post of the same user on the
\* same post, applied to the like-sets a like_post has left, returns the count
\* of the like minus one and leaves the like-sets as they were before the like.
\* Neither changes the like-set of another post, the other members of the set,
\* a post record or a comment.
C17_LikeUnlikeInverse ==
    [][(response'.op \in {"like_post", "unlike_post"} /\ response'.status = HTTP_200_OK) =>
         LET p == response'.post_id
             u == response'.user[1]
         IN  /\ p \in DOMAIN likes_db
             /\ DOMAIN likes_db' = DOMAIN likes_db
             /\ \A q \in DOMAIN likes_db \ {p} : likes_db'[q] = likes_db[q]
             /\ likes_db'[p] \ {u} = likes_db[p] \ {u}
             /\ UNCHANGED <<posts_db, posts_keys, comments_db, users_db, post_counter,
                            comment_counter>>
             /\ response'.op = "like_post" =>
                    /\ u \notin likes_db[p]
                    /\ likes_db'[p] = likes_db[p] \cup {u}
                    /\ response'.body[1].likes_count = Cardinality(likes_db[p]) + 1
                    /\ Unliked(likes_db', p, u) = likes_db
                    /\ Cardinality(Unliked(likes_db', p, u)[p]) =
                           response'.body[1].likes_count - 1
             /\ response'.op = "unlike_post" =>
                    /\ u \in likes_db[p]
                    /\ likes_db'[p] = likes_db[p] \ {u}
                    /\ likes_db' = Unliked(likes_db, p, u)
                    /\ response'.body[1].likes_count = Cardinality(likes_db[p]) - 1
      ]_vars

\* the second user to like a post has unliked it: the count is back at one,
\* the first user's like is still there, and so is a like on the other post
C17_Witness ==
    /\ Succeeded("unlike_post")
    /\ response.body[1].likes_count = 1
    /\ likes_db[response.post_id] # {}
    /\ response.user[1] \notin likes_db[response.post_id]
    /\ \E q \in DOMAIN likes_db \ {response.post_id} : likes_db[q] # {}
    /\ comment_counter > 0

\* C18: with requests served one at a time, in every reachable state the post
\* store, the like store and the comment store have the same keys, every key
\* lies between 1 and post_counter, and a post is stored under its own id; so
\* for a stored post the branches of like_post and add_comment that create a
\* missing like-set or comment list, and the defaults of the .get lookups, are
\* never used.
C18_SameKeys ==
    /\ DOMAIN likes_db = DOMAIN posts_db
    /\ DOMAIN comments_db = DOMAIN posts_db
    /\ DOMAIN posts_db \subseteq 1..post_counter
    /\ {posts_keys[i] : i \in 1..Len(posts_keys)} = DOMAIN posts_db
    /\ Len(posts_keys) = Cardinality(DOMAIN posts_db)
    /\ \A p \in DOMAIN posts_db :
           /\ posts_db[p].id = p
           /\ Get(likes_db, p, {}) = likes_db[p]
           /\ Get(comments_db, p, <<>>) = comments_db[p]

\* a post that had a comment was deleted by its author: the three stores are
\* empty again while the counter stays at the id the post had
C18_Witness ==
    /\ Succeeded("delete_post")
    /\ response.post_id = post_counter
    /\ gone_comments # {}
    /\ DOMAIN posts_db = {}
    /\ DOMAIN likes_db = {}
    /\ DOMAIN comments_db = {}

\* the users who hold a token: login checked their password and signed it
LoggedIn == {r.user : r \in issued}

\* C19: in every reachable state the author of every post, the author of every
\* comment and every member of every like-set is a registered user to whom
\* login has issued a token, and the post, comment or like a request has just
\* made carries the username the request was authenticated as, whatever author
\* the body of create_post named.
C19_AuthorIsAuthenticatedUser ==
    /\ LoggedIn \subseteq DOMAIN users_db
    /\ \A p \in DOMAIN posts_db : posts_db[p].author \in LoggedIn
    /\ \A p \in DOMAIN comments_db :
           \A i \in 1..Len(comments_db[p]) : comments_db[p][i].author \in LoggedIn
    /\ \A p \in DOMAIN likes_db : likes_db[p] \subseteq LoggedIn
    /\ Succeeded("create_post") =>
           /\ response.body[1].author = response.user[1]
           /\ response.post_id \in DOMAIN posts_db =>
                  posts_db[response.post_id].author = response.user[1]
    /\ Succeeded("add_comment") =>
           /\ response.body[1].author = response.user[1]
           /\ comments_db[response.post_id][Len(comments_db[response.post_id])].author
                  = response.user[1]
    /\ Succeeded("like_post") => response.user[1] \in likes_db[response.post_id]

\* a user has created, liked and commented a post while the other user, whom
\* the body of create_post can name as author, is registered without a token
C19_Witness ==
    /\ Succeeded("add_comment")
    /\ "bob" \in DOMAIN users_db
    /\ "bob" \notin LoggedIn
    /\ posts_db[response.post_id].author = "alice"
    /\ likes_db[response.post_id] = {"alice"}
    /\ response.body[1].author = "alice"

====
